---- MODULE Spec2Model ----
(***************************************************************************)
(* A model of the GeoJSON codec of fogfish/geojson: coordinate shapes,     *)
(* bounding boxes, the six geometry variants, the Feature envelope and the *)
(* Collection envelope, together with the host types of the test suite     *)
(* (GeoJsonCity, GeoJsonCities) that embed Feature and Collection.         *)
(*                                                                         *)
(* Go values are modelled structurally:                                    *)
(*   - a slice is a record [nil, e]: nil tells the nil slice from the      *)
(*     empty one (encoding/json writes the first as null, the second as    *)
(*     []), e is the sequence of its elements;                             *)
(*   - a JSON document is a tree [k, v] with k in null, num, str, arr, obj;*)
(*     an object is the sequence of its members in document order; bytes   *)
(*     that are not well-formed JSON are the tree JBad;                    *)
(*   - an error is a record [kind, type]; a runtime fault (index out of    *)
(*     range, nil dereference) is the error of kind "panic".               *)
(***************************************************************************)
EXTENDS Integers, Sequences, FiniteSets, TLC

\* Bounds of the model: numbers are 0..MaxCoord, a curve holds at most MaxPos
\* positions.
MaxCoord == 1
MaxPos == 2
MaxMembers == 2

-----------------------------------------------------------------------------
\* Go slices and errors.

NilSlice == [nil |-> TRUE, e |-> <<>>]
Slice(s) == [nil |-> FALSE, e |-> s]
len(s) == Len(s.e)

SeqsUpTo(S, n) == UNION {[1..k -> S] : k \in 0..n}

NoError == [kind |-> "nil", type |-> ""]
\* A runtime fault: index out of range, nil pointer dereference.
Panic == [kind |-> "panic", type |-> ""]
\* Errors of encoding/json.
SyntaxError == [kind |-> "SyntaxError", type |-> ""]
UnmarshalTypeError == [kind |-> "UnmarshalTypeError", type |-> ""]
\* The sentinel of the package: it carries no type string.
ErrUnsupportedType == [kind |-> "GeoJSON type is not supported", type |-> ""]
\* fmt.Errorf("type %s is not supported as GeoJSON %s", t, ...).
errNotSupported(t) == [kind |-> "type %s is not supported", type |-> t]

FirstError(errs) ==
    LET bad == {i \in 1..Len(errs) : errs[i] # NoError}
    IN  IF bad = {} THEN NoError
        ELSE errs[CHOOSE i \in bad : \A j \in bad : i <= j]

-----------------------------------------------------------------------------
\* JSON documents, as encoding/json reads and writes them.

JNull == [k |-> "null"]
JNum(n) == [k |-> "num", v |-> n]
JStr(s) == [k |-> "str", v |-> s]
JArr(s) == [k |-> "arr", v |-> s]
JObj(m) == [k |-> "obj", v |-> m]
\* Bytes that are not well-formed JSON.
JBad == [k |-> "bad"]
\* A member that the object does not have; also the empty json.RawMessage.
Absent == [k |-> "absent"]
\* No bytes were produced.
NoBytes == [k |-> "none"]

Member(key, val) == [key |-> key, val |-> val]

\* The value of the member `key` of the object o; the last one wins.
Field(o, key) ==
    LET at == {i \in 1..Len(o.v) : o.v[i].key = key}
    IN  IF at = {} THEN Absent
        ELSE o.v[CHOOSE i \in at : \A j \in at : j <= i].val

\* json.Unmarshal of a member into a string field.
UnmarshalString(j) ==
    CASE j.k = "str" -> [err |-> NoError, val |-> j.v]
      [] j.k \in {"absent", "null"} -> [err |-> NoError, val |-> ""]
      [] OTHER -> [err |-> UnmarshalTypeError, val |-> ""]

-----------------------------------------------------------------------------
\* Coordinate shapes (position.go): Coord, Curve, Surface, Surfaces are
\* slices nested 1, 2, 3 and 4 deep over float64.

Num == 0..MaxCoord

\* The positions of the model: x and y, differing from position to position
\* in both.
Position == {Slice(<<x, MaxCoord - x>>) : x \in Num}

Coord == {NilSlice, Slice(<<>>)} \cup Position

Curve == {NilSlice} \cup {Slice(s) : s \in SeqsUpTo(Position, MaxPos)}

Surface == {NilSlice} \cup {Slice(s) : s \in SeqsUpTo(Curve, 2)}

\* The polygons of a MultiPolygon: rings of at most one position.
Ring == {NilSlice} \cup {Slice(s) : s \in SeqsUpTo(Position, 1)}
Surfaces ==
    {NilSlice} \cup
    {Slice(s) : s \in SeqsUpTo({NilSlice} \cup {Slice(r) : r \in SeqsUpTo(Ring, 2)}, 2)}

RECURSIVE FMap_lastFirst(_, _)
\* Mutant: the last element of each level is visited first.
FMap_lastFirst(d, shape) ==
    IF d = 1 THEN <<shape>>
    ELSE IF len(shape) = 0 THEN <<>>
    ELSE FMap_lastFirst(d - 1, shape.e[len(shape)])
            \o FMap_lastFirst(d, Slice(SubSeq(shape.e, 1, len(shape) - 1)))

RECURSIVE FMap(_, _)
\* The leaf Coords that FMap visits, in order; d is the nesting depth.
FMap(d, shape) ==
    IF d = 1 THEN <<shape>>
    ELSE IF len(shape) = 0 THEN <<>>
    ELSE FMap(d, Slice(SubSeq(shape.e, 1, len(shape) - 1)))
            \o FMap(d - 1, shape.e[len(shape)])

RECURSIVE MarshalShape(_, _)
\* json.Marshal of a shape of depth d (0: a float64).
MarshalShape(d, s) ==
    IF d = 0 THEN JNum(s)
    ELSE IF s.nil THEN JNull
    ELSE JArr([i \in 1..len(s) |-> MarshalShape(d - 1, s.e[i])])

RECURSIVE UnmarshalShape(_, _)
\* json.Unmarshal of the tree j into a fresh shape of depth d: a value of the
\* wrong kind is an UnmarshalTypeError and leaves the zero value, the decoder
\* goes on and reports the first such error.
UnmarshalShape(d, j) ==
    IF d = 0 THEN
        CASE j.k = "num" -> [err |-> NoError, val |-> j.v]
          [] j.k = "null" -> [err |-> NoError, val |-> 0]
          [] OTHER -> [err |-> UnmarshalTypeError, val |-> 0]
    ELSE
        CASE j.k = "null" -> [err |-> NoError, val |-> NilSlice]
          [] j.k = "arr" ->
                LET r == [i \in 1..Len(j.v) |-> UnmarshalShape(d - 1, j.v[i])]
                IN  [err |-> FirstError([i \in 1..Len(j.v) |-> r[i].err]),
                     val |-> Slice([i \in 1..Len(j.v) |-> r[i].val])]
          [] OTHER -> [err |-> UnmarshalTypeError, val |-> NilSlice]

-----------------------------------------------------------------------------
\* Bounding boxes (position.go).  A result is [fault, box]: fault tells that
\* the call ended in a runtime fault.

NoBox == [fault |-> FALSE, box |-> NilSlice]
Fault == [fault |-> TRUE, box |-> NilSlice]

RECURSIVE scan(_, _, _)
\* The closure of boundingBox applied to the coords from the i-th on; b is
\* <<w, s, e, n>>.
scan(b, coords, i) ==
    IF i > Len(coords) THEN [fault |-> FALSE, box |-> Slice(b)]
    ELSE IF len(coords[i]) < 2 THEN Fault
    ELSE LET lng == coords[i].e[1]
             lat == coords[i].e[2]
         IN  scan(<<IF lng < b[1] THEN lng ELSE b[1],
                    IF lat < b[2] THEN lat ELSE b[2],
                    IF lng > b[3] THEN lng ELSE b[3],
                    IF lat > b[4] THEN lat ELSE b[4]>>, coords, i + 1)

\* boundingBox(seed, coords): coords is what FMap visits.
boundingBox(seed, coords) ==
    IF len(seed) < 2 THEN Fault
    ELSE scan(<<seed.e[1], seed.e[2], seed.e[1], seed.e[2]>>, coords, 1)

SouthWest(bbox) == Slice(SubSeq(bbox.e, 1, len(bbox) \div 2))
NorthEast(bbox) == Slice(SubSeq(bbox.e, len(bbox) \div 2 + 1, len(bbox)))

\* Mutant: the north side of the receiver is not compared.
Join_noNorth(bbox, box) ==
    LET n == len(bbox) \div 2
        sw == SouthWest(box)
        ne == NorthEast(box)
    IN  IF len(bbox) < 1 \/ len(sw) < 2 \/ len(bbox) < n + 2 \/ len(ne) < 2
        THEN Fault
        ELSE LET b0 == IF bbox.e[1] > sw.e[1]
                       THEN [bbox.e EXCEPT ![1] = sw.e[1]] ELSE bbox.e
                 b1 == IF b0[2] > sw.e[2] THEN [b0 EXCEPT ![2] = sw.e[2]] ELSE b0
                 b2 == IF b1[n + 1] < ne.e[1]
                       THEN [b1 EXCEPT ![n + 1] = ne.e[1]] ELSE b1
             IN  [fault |-> FALSE, box |-> Slice(b2)]

\* bbox.Join(box): the receiver after the call.
Join(bbox, box) ==
    LET n == len(bbox) \div 2
        sw == SouthWest(box)
        ne == NorthEast(box)
    IN  IF len(bbox) < 1 \/ len(sw) < 2 \/ len(bbox) < n + 2 \/ len(ne) < 2
        THEN Fault
        ELSE LET b0 == IF bbox.e[1] > sw.e[1]
                       THEN [bbox.e EXCEPT ![1] = sw.e[1]] ELSE bbox.e
                 b1 == IF b0[2] > sw.e[2] THEN [b0 EXCEPT ![2] = sw.e[2]] ELSE b0
                 b2 == IF b1[n + 1] < ne.e[1]
                       THEN [b1 EXCEPT ![n + 1] = ne.e[1]] ELSE b1
                 b3 == IF b2[n + 2] < ne.e[2]
                       THEN [b2 EXCEPT ![n + 2] = ne.e[2]] ELSE b2
             IN  [fault |-> FALSE, box |-> Slice(b3)]

-----------------------------------------------------------------------------
\* Geometry (geometry.go).  A Geometry value is [variant, Coords]: variant is
\* the Go type behind the interface, "nil" for the nil interface.

typePoint == "Point"
typeMultiPoint == "MultiPoint"
typeLineString == "LineString"
typeMultiLineString == "MultiLineString"
typePolygon == "Polygon"
typeMultiPolygon == "MultiPolygon"

Variants ==
    {"*Point", "*MultiPoint", "*LineString", "*MultiLineString", "*Polygon",
     "*MultiPolygon"}

NoGeometry == [variant |-> "nil", Coords |-> NilSlice]
Geo(variant, coords) == [variant |-> variant, Coords |-> coords]

\* The nesting depth of the Coords field of each variant.
Depth(variant) ==
    CASE variant = "*Point" -> 1
      [] variant \in {"*MultiPoint", "*LineString"} -> 2
      [] variant \in {"*MultiLineString", "*Polygon"} -> 3
      [] variant = "*MultiPolygon" -> 4

\* The Type that the MarshalJSON of each variant writes.
TypeOf(variant) ==
    CASE variant = "*Point" -> typePoint
      [] variant = "*MultiPoint" -> typeMultiPoint
      [] variant = "*LineString" -> typeLineString
      [] variant = "*MultiLineString" -> typeMultiLineString
      [] variant = "*Polygon" -> typePolygon
      [] variant = "*MultiPolygon" -> typeMultiPolygon

Point_BoundingBox(geo) ==
    IF len(geo.Coords) = 0 THEN NoBox
    ELSE boundingBox(geo.Coords, FMap(1, geo.Coords))

\* MultiPoint and LineString.
Curve_BoundingBox(geo) ==
    IF len(geo.Coords) = 0 THEN NoBox
    ELSE boundingBox(geo.Coords.e[1], FMap(2, geo.Coords))

\* MultiLineString and Polygon.
Surface_BoundingBox(geo) ==
    IF len(geo.Coords) = 0 \/ len(geo.Coords.e[1]) = 0 THEN NoBox
    ELSE boundingBox(geo.Coords.e[1].e[1], FMap(3, geo.Coords))

RECURSIVE joinSurfaces(_, _, _)
\* The loop of MultiPolygon.BoundingBox from the i-th surface on.
joinSurfaces(bbox, coords, i) ==
    IF i > len(coords) THEN [fault |-> FALSE, box |-> bbox]
    ELSE LET surface == coords.e[i]
         IN  IF len(surface) > 0 /\ len(surface.e[1]) > 0
             THEN LET b == boundingBox(surface.e[1].e[1], FMap(3, surface))
                      j == IF b.fault THEN Fault ELSE Join(bbox, b.box)
                  IN  IF j.fault THEN Fault ELSE joinSurfaces(j.box, coords, i + 1)
             ELSE joinSurfaces(bbox, coords, i + 1)

\* Mutant: the guard on the first surface is missing.
MultiPolygon_BoundingBox_unguarded(geo) ==
    IF len(geo.Coords) = 0 THEN NoBox
    ELSE IF len(geo.Coords.e[1]) = 0 THEN Fault
    ELSE IF len(geo.Coords.e[1].e[1]) = 0 THEN Fault
    ELSE LET bbox == boundingBox(geo.Coords.e[1].e[1].e[1], FMap(3, geo.Coords.e[1]))
         IN  IF bbox.fault THEN Fault ELSE joinSurfaces(bbox.box, geo.Coords, 1)

MultiPolygon_BoundingBox(geo) ==
    IF len(geo.Coords) = 0 \/ len(geo.Coords.e[1]) = 0 THEN NoBox
    ELSE IF len(geo.Coords.e[1].e[1]) = 0 THEN Fault
    ELSE LET bbox == boundingBox(geo.Coords.e[1].e[1].e[1], FMap(3, geo.Coords.e[1]))
         IN  IF bbox.fault THEN Fault ELSE joinSurfaces(bbox.box, geo.Coords, 1)

\* geo.BoundingBox() of a non-nil Geometry.
Geometry_BoundingBox(geo) ==
    CASE geo.variant = "*Point" -> Point_BoundingBox(geo)
      [] geo.variant \in {"*MultiPoint", "*LineString"} -> Curve_BoundingBox(geo)
      [] geo.variant \in {"*MultiLineString", "*Polygon"} -> Surface_BoundingBox(geo)
      [] geo.variant = "*MultiPolygon" -> MultiPolygon_BoundingBox(geo)

\* The MarshalJSON of the six variants: the type, then the coordinates.
Geometry_MarshalJSON(geo) ==
    JObj(<<Member("type", JStr(TypeOf(geo.variant))),
           Member("coordinates", MarshalShape(Depth(geo.variant), geo.Coords))>>)

\* The unmarshalGeoJSON of the six variants, on a fresh value: json.Unmarshal
\* of the raw coordinates into Coords; no bytes at all are a syntax error.
unmarshalGeoJSON(variant, b) ==
    IF b = Absent THEN [geo |-> Geo(variant, NilSlice), err |-> SyntaxError]
    ELSE LET r == UnmarshalShape(Depth(variant), b)
         IN  [geo |-> Geo(variant, r.val), err |-> r.err]

\* The variant that the switch of decodeGeometry selects.
variantOf(type) ==
    CASE type = typePoint -> "*Point"
      [] type = typeMultiPoint -> "*MultiPoint"
      [] type = typeLineString -> "*LineString"
      [] type = typeMultiLineString -> "*MultiLineString"
      [] type = typePolygon -> "*Polygon"
      [] type = typeMultiPolygon -> "*MultiPolygon"
      [] OTHER -> "nil"

\* decodeGeometry(b): b is the raw `geometry` member, [geo, err] the result.
decodeGeometry(b) ==
    IF b.k = "null" THEN [geo |-> NoGeometry, err |-> NoError]
    ELSE IF b.k # "obj" THEN [geo |-> NoGeometry, err |-> UnmarshalTypeError]
    ELSE LET type == UnmarshalString(Field(b, "type"))
             coords == Field(b, "coordinates")
         IN  IF type.err # NoError THEN [geo |-> NoGeometry, err |-> type.err]
             ELSE IF type.val = "" THEN [geo |-> NoGeometry, err |-> NoError]
             ELSE IF variantOf(type.val) = "nil"
             THEN [geo |-> NoGeometry, err |-> errNotSupported(type.val)]
             ELSE unmarshalGeoJSON(variantOf(type.val), coords)

\* Mutant: the type of the bag is not compared with the tag of the variant.
Variant_UnmarshalJSON_anyType(variant, geo, b) ==
    IF b.k = "bad" THEN [geo |-> geo, err |-> SyntaxError]
    ELSE IF b.k \notin {"obj", "null"} THEN [geo |-> geo, err |-> UnmarshalTypeError]
    ELSE LET type == IF b.k = "null" THEN UnmarshalString(Absent)
                     ELSE UnmarshalString(Field(b, "type"))
             coords == IF b.k = "null" THEN Absent ELSE Field(b, "coordinates")
             struct == IF coords = Absent
                       THEN [err |-> NoError, val |-> NilSlice]
                       ELSE UnmarshalShape(Depth(variant), coords)
         IN  IF FirstError(<<type.err, struct.err>>) # NoError
             THEN [geo |-> geo, err |-> UnmarshalTypeError]
             ELSE IF coords = Absent THEN [geo |-> geo, err |-> Panic]
             ELSE [geo |-> Geo(variant, struct.val), err |-> NoError]

\* The UnmarshalJSON of the six variants (json.Unmarshal of b into a *V):
\* the bag is {Type, *Struct}, the embedded Struct is allocated when the
\* document has a `coordinates` member.  geo is the value before the call.
Variant_UnmarshalJSON(variant, geo, b) ==
    IF b.k = "bad" THEN [geo |-> geo, err |-> SyntaxError]
    ELSE IF b.k \notin {"obj", "null"} THEN [geo |-> geo, err |-> UnmarshalTypeError]
    ELSE LET type == IF b.k = "null" THEN UnmarshalString(Absent)
                     ELSE UnmarshalString(Field(b, "type"))
             coords == IF b.k = "null" THEN Absent ELSE Field(b, "coordinates")
             struct == IF coords = Absent
                       THEN [err |-> NoError, val |-> NilSlice]
                       ELSE UnmarshalShape(Depth(variant), coords)
         IN  IF FirstError(<<type.err, struct.err>>) # NoError
             THEN [geo |-> geo, err |-> UnmarshalTypeError]
             ELSE IF type.val # TypeOf(variant)
             THEN [geo |-> geo, err |-> errNotSupported(type.val)]
             ELSE IF coords = Absent THEN [geo |-> geo, err |-> Panic]
             ELSE [geo |-> Geo(variant, struct.val), err |-> NoError]

-----------------------------------------------------------------------------
\* Feature (feature.go) and the host type of the tests, GeoJsonCity, which
\* embeds Feature and City: a host is [ID, Geometry, Name].

TYPE_FEATURE == "Feature"

New(id, geometry) == [ID |-> id, Geometry |-> geometry]
NewPoint(id, coords) == [ID |-> id, Geometry |-> Geo("*Point", coords)]
NewMultiPoint(id, coords) == [ID |-> id, Geometry |-> Geo("*MultiPoint", coords)]
NewLineString(id, coords) == [ID |-> id, Geometry |-> Geo("*LineString", coords)]
NewMultiLineString(id, coords) ==
    [ID |-> id, Geometry |-> Geo("*MultiLineString", coords)]
NewPolygon(id, coords) == [ID |-> id, Geometry |-> Geo("*Polygon", coords)]
\* NewMultiPolygon(id, coords...): coords is the sequence of the arguments, the
\* variadic parameter is the nil slice when there is none.
NewMultiPolygon(id, coords) ==
    [ID |-> id,
     Geometry |-> Geo("*MultiPolygon",
                      IF coords = <<>> THEN NilSlice ELSE Slice(coords))]

\* GeoJsonCity{Feature: fea, City: City{Name: name}}.
GeoJsonCity(fea, name) == [ID |-> fea.ID, Geometry |-> fea.Geometry, Name |-> name]

\* var c GeoJsonCity.
ZeroCity == GeoJsonCity(New("", NoGeometry), "")

\* Mutant: the method is called on the nil Geometry.
Feature_BoundingBox_noNilCheck(fea) ==
    IF fea.Geometry = NoGeometry THEN Fault
    ELSE Geometry_BoundingBox(fea.Geometry)

Feature_BoundingBox(fea) ==
    IF fea.Geometry = NoGeometry THEN NoBox
    ELSE Geometry_BoundingBox(fea.Geometry)

\* The properties value `nil`.
NilProps == [props |-> "nil"]

\* A properties value that encoding/json does not take (a chan, a func), and
\* the error of json.Marshal for it.
ChanProps == [props |-> "chan"]
UnsupportedTypeError == [kind |-> "json: unsupported type", type |-> ""]

\* json.Marshal(props): of a host converted to tStruct, the fields of Feature
\* are tagged "-" and name is omitempty.
json_Marshal(props) ==
    IF props = NilProps THEN [err |-> NoError, raw |-> JNull]
    ELSE IF props = ChanProps THEN [err |-> UnsupportedTypeError, raw |-> Absent]
    ELSE [err |-> NoError,
          raw |-> JObj(IF props.Name = "" THEN <<>>
                       ELSE <<Member("name", JStr(props.Name))>>)]

\* Mutant: a Point is not told apart.
encodedBBox_ofPoint(fea) ==
    CASE fea.Geometry = NoGeometry -> NoBox
      [] OTHER -> Geometry_BoundingBox(fea.Geometry)

\* The bbox that EncodeGeoJSON writes: none for the nil Geometry and for a
\* Point.
encodedBBox(fea) ==
    CASE fea.Geometry = NoGeometry -> NoBox
      [] fea.Geometry.variant = "*Point" -> NoBox
      [] OTHER -> Geometry_BoundingBox(fea.Geometry)

\* Mutant: the ID field stands before the BBox field.
Feature_EncodeGeoJSON_idFirst(fea, props) ==
    LET properties == json_Marshal(props)
        bbox == encodedBBox(fea)
    IN  IF properties.err # NoError THEN [bytes |-> NoBytes, err |-> properties.err]
        ELSE IF bbox.fault THEN [bytes |-> NoBytes, err |-> Panic]
        ELSE [bytes |->
                JObj(<<Member("type", JStr(TYPE_FEATURE))>>
                     \o (IF fea.ID = "" THEN <<>>
                         ELSE <<Member("id", JStr(fea.ID))>>)
                     \o (IF len(bbox.box) = 0 THEN <<>>
                         ELSE <<Member("bbox", MarshalShape(1, bbox.box))>>)
                     \o <<Member("geometry",
                                 IF fea.Geometry = NoGeometry THEN JNull
                                 ELSE Geometry_MarshalJSON(fea.Geometry))>>
                     \o (IF properties.raw = Absent THEN <<>>
                         ELSE <<Member("properties", properties.raw)>>)),
              err |-> NoError]

\* fea.EncodeGeoJSON(props): [bytes, err].
Feature_EncodeGeoJSON(fea, props) ==
    LET properties == json_Marshal(props)
        bbox == encodedBBox(fea)
    IN  IF properties.err # NoError THEN [bytes |-> NoBytes, err |-> properties.err]
        ELSE IF bbox.fault THEN [bytes |-> NoBytes, err |-> Panic]
        ELSE [bytes |->
                JObj(<<Member("type", JStr(TYPE_FEATURE))>>
                     \o (IF len(bbox.box) = 0 THEN <<>>
                         ELSE <<Member("bbox", MarshalShape(1, bbox.box))>>)
                     \o (IF fea.ID = "" THEN <<>>
                         ELSE <<Member("id", JStr(fea.ID))>>)
                     \o <<Member("geometry",
                                 IF fea.Geometry = NoGeometry THEN JNull
                                 ELSE Geometry_MarshalJSON(fea.Geometry))>>
                     \o (IF properties.raw = Absent THEN <<>>
                         ELSE <<Member("properties", properties.raw)>>)),
              err |-> NoError]

\* json.Unmarshal(bytes, &any) into the zero anyGeoJSON.
unmarshalAnyGeoJSON(bytes) ==
    LET zero == [Type |-> "", ID |-> "", Geometry |-> Absent, Properties |-> Absent]
    IN  IF bytes.k = "bad" THEN [err |-> SyntaxError, any |-> zero]
        ELSE IF bytes.k = "null" THEN [err |-> NoError, any |-> zero]
        ELSE IF bytes.k # "obj" THEN [err |-> UnmarshalTypeError, any |-> zero]
        ELSE LET type == UnmarshalString(Field(bytes, "type"))
                 id == UnmarshalString(Field(bytes, "id"))
             IN  [err |-> FirstError(<<type.err, id.err>>),
                  any |-> [Type |-> type.val, ID |-> id.val,
                           Geometry |-> Field(bytes, "geometry"),
                           Properties |-> Field(bytes, "properties")]]

\* json.Unmarshal(any.Properties, &props), props holding the pointer to the
\* host x: [x, err].
unmarshalProps(x, raw) ==
    IF raw.k = "null" THEN [x |-> x, err |-> NoError]
    ELSE IF raw.k # "obj" THEN [x |-> x, err |-> UnmarshalTypeError]
    ELSE LET name == Field(raw, "name")
         IN  CASE name.k \in {"absent", "null"} -> [x |-> x, err |-> NoError]
               [] name.k = "str" -> [x |-> [x EXCEPT !.Name = name.v], err |-> NoError]
               [] OTHER -> [x |-> x, err |-> UnmarshalTypeError]

\* Mutant: the ID is not assigned.
decodeAnyGeoJSON_keepsID(x, any) ==
    LET g == IF any.Geometry # Absent THEN decodeGeometry(any.Geometry)
             ELSE [geo |-> x.Geometry, err |-> NoError]
        x1 == [x EXCEPT !.Geometry = g.geo]
        p == IF any.Properties # Absent THEN unmarshalProps(x1, any.Properties)
             ELSE [x |-> x1, err |-> NoError]
    IN  IF g.err # NoError THEN [x |-> x, err |-> g.err]
        ELSE [x |-> p.x, err |-> p.err]

\* Mutant: the geometry is assigned before the error of its decoding is
\* looked at.
decodeAnyGeoJSON_installsOnError(x, any) ==
    LET g == IF any.Geometry # Absent THEN decodeGeometry(any.Geometry)
             ELSE [geo |-> x.Geometry, err |-> NoError]
        x1 == [x EXCEPT !.Geometry = g.geo]
        p == IF any.Properties # Absent THEN unmarshalProps(x1, any.Properties)
             ELSE [x |-> x1, err |-> NoError]
    IN  IF g.err # NoError THEN [x |-> x1, err |-> NoError]
        ELSE IF p.err # NoError THEN [x |-> p.x, err |-> p.err]
        ELSE [x |-> [p.x EXCEPT !.ID = any.ID], err |-> NoError]

\* Mutant: a decoded nil geometry is not assigned.
decodeAnyGeoJSON_keepsGeometry(x, any) ==
    LET g == IF any.Geometry # Absent THEN decodeGeometry(any.Geometry)
             ELSE [geo |-> x.Geometry, err |-> NoError]
        x1 == IF g.geo = NoGeometry THEN x ELSE [x EXCEPT !.Geometry = g.geo]
        p == IF any.Properties # Absent THEN unmarshalProps(x1, any.Properties)
             ELSE [x |-> x1, err |-> NoError]
    IN  IF g.err # NoError THEN [x |-> x, err |-> g.err]
        ELSE IF p.err # NoError THEN [x |-> p.x, err |-> p.err]
        ELSE [x |-> [p.x EXCEPT !.ID = any.ID], err |-> NoError]

\* fea.decodeAnyGeoJSON(any, props) on the host x: [x, err].
decodeAnyGeoJSON(x, any) ==
    LET g == IF any.Geometry # Absent THEN decodeGeometry(any.Geometry)
             ELSE [geo |-> x.Geometry, err |-> NoError]
        x1 == [x EXCEPT !.Geometry = g.geo]
        p == IF any.Properties # Absent THEN unmarshalProps(x1, any.Properties)
             ELSE [x |-> x1, err |-> NoError]
    IN  IF g.err # NoError THEN [x |-> x, err |-> g.err]
        ELSE IF p.err # NoError THEN [x |-> p.x, err |-> p.err]
        ELSE [x |-> [p.x EXCEPT !.ID = any.ID], err |-> NoError]

\* x.Feature.DecodeGeoJSON(bytes, tStruct(x)): [x, err].
Feature_DecodeGeoJSON(x, bytes) ==
    LET r == unmarshalAnyGeoJSON(bytes)
    IN  IF r.err # NoError THEN [x |-> x, err |-> r.err]
        ELSE IF r.any.Type # TYPE_FEATURE THEN [x |-> x, err |-> ErrUnsupportedType]
        ELSE decodeAnyGeoJSON(x, r.any)

-----------------------------------------------------------------------------
\* Collection[T] (collection.go) and the host type of its tests,
\* GeoJsonCities, which embeds Collection[GeoJsonCity] and has Name: a host is
\* [Features, Name], Features the slice of the members.

TYPE_FEATURE_COLLECTION == "FeatureCollection"

GeoJsonCities(features, name) == [Features |-> features, Name |-> name]

\* var c GeoJsonCities.
ZeroCities == GeoJsonCities(NilSlice, "")

RECURSIVE joinFeatures(_, _, _)
\* The loop of Collection.BoundingBox from the i-th member on.
joinFeatures(bbox, features, i) ==
    IF i > len(features) THEN [fault |-> FALSE, box |-> bbox]
    ELSE LET b == Feature_BoundingBox(features.e[i])
             j == IF b.fault THEN Fault ELSE Join(bbox, b.box)
         IN  IF j.fault THEN Fault ELSE joinFeatures(j.box, features, i + 1)

\* Mutant: the seed is the box that the member's encoding writes, which is
\* none for a Point.
Collection_BoundingBox_encoded(x) ==
    IF len(x.Features) = 0 THEN NoBox
    ELSE LET bbox == encodedBBox(x.Features.e[1])
         IN  IF bbox.fault \/ len(bbox.box) = 0 THEN NoBox
             ELSE joinFeatures(bbox.box, x.Features, 2)

\* c.BoundingBox().
Collection_BoundingBox(x) ==
    IF len(x.Features) = 0 THEN NoBox
    ELSE LET bbox == Feature_BoundingBox(x.Features.e[1])
         IN  IF bbox.fault THEN Fault ELSE joinFeatures(bbox.box, x.Features, 2)

\* c.EncodeGeoJSON(props) of the host x, props the host as tStruct:
\* [bytes, err].  The members are written by their MarshalJSON.
Collection_EncodeGeoJSON(x, props) ==
    LET properties == json_Marshal(props)
        bbox == Collection_BoundingBox(x)
        features == [i \in 1..len(x.Features) |->
                        Feature_EncodeGeoJSON(x.Features.e[i], x.Features.e[i])]
        errs == [i \in 1..len(x.Features) |-> features[i].err]
    IN  IF properties.err # NoError THEN [bytes |-> NoBytes, err |-> properties.err]
        ELSE IF bbox.fault THEN [bytes |-> NoBytes, err |-> Panic]
        ELSE IF FirstError(errs) # NoError
        THEN [bytes |-> NoBytes, err |-> FirstError(errs)]
        ELSE [bytes |->
                JObj(<<Member("type", JStr(TYPE_FEATURE_COLLECTION))>>
                     \o (IF len(bbox.box) = 0 THEN <<>>
                         ELSE <<Member("bbox", MarshalShape(1, bbox.box))>>)
                     \o (IF len(x.Features) = 0 THEN <<>>
                         ELSE <<Member("features",
                                       JArr([i \in 1..len(x.Features) |->
                                                features[i].bytes]))>>)
                     \o <<Member("properties", properties.raw)>>),
              err |-> NoError]

\* json.Unmarshal(bytes, &val) into the zero val of DecodeGeoJSON; BBox is
\* typed, Features and Properties are raw.
unmarshalCollection(bytes) ==
    LET zero == [Type |-> "", Features |-> Absent, Properties |-> Absent]
    IN  IF bytes.k = "bad" THEN [err |-> SyntaxError, val |-> zero]
        ELSE IF bytes.k = "null" THEN [err |-> NoError, val |-> zero]
        ELSE IF bytes.k # "obj" THEN [err |-> UnmarshalTypeError, val |-> zero]
        ELSE LET type == UnmarshalString(Field(bytes, "type"))
                 bbox == IF Field(bytes, "bbox") = Absent
                         THEN [err |-> NoError, val |-> NilSlice]
                         ELSE UnmarshalShape(1, Field(bytes, "bbox"))
             IN  [err |-> FirstError(<<type.err, bbox.err>>),
                  val |-> [Type |-> type.val,
                           Features |-> Field(bytes, "features"),
                           Properties |-> Field(bytes, "properties")]]

RECURSIVE decodeElements(_, _, _, _)
\* The array decoder of json.Unmarshal on the slice `old` from the i-th
\* element of docs on: an element that the slice has is decoded in place, a
\* new one is zero; the first error of an element's UnmarshalJSON ends it.
decodeElements(old, docs, i, acc) ==
    IF i > Len(docs) THEN [val |-> Slice(acc), err |-> NoError]
    ELSE LET r == Feature_DecodeGeoJSON(IF i <= len(old) THEN old.e[i] ELSE ZeroCity,
                                        docs[i])
         IN  IF r.err # NoError
             THEN [val |-> Slice(acc \o <<r.x>> \o SubSeq(old.e, i + 1, len(old))),
                   err |-> r.err]
             ELSE decodeElements(old, docs, i + 1, acc \o <<r.x>>)

\* json.Unmarshal(val.Features, &c.Features): [val, err].
unmarshalFeatures(old, raw) ==
    CASE raw.k = "null" -> [val |-> NilSlice, err |-> NoError]
      [] raw.k = "arr" -> decodeElements(old, raw.v, 1, <<>>)
      [] OTHER -> [val |-> old, err |-> UnmarshalTypeError]

\* Mutant: the properties are not decoded.
Collection_DecodeGeoJSON_noProperties(x, bytes) ==
    LET r == unmarshalCollection(bytes)
        f == IF r.val.Features # Absent THEN unmarshalFeatures(x.Features, r.val.Features)
             ELSE [val |-> x.Features, err |-> NoError]
    IN  IF r.err # NoError THEN [x |-> x, err |-> r.err]
        ELSE IF r.val.Type # TYPE_FEATURE_COLLECTION
        THEN [x |-> x, err |-> ErrUnsupportedType]
        ELSE [x |-> [x EXCEPT !.Features = f.val], err |-> f.err]

\* Mutant: the type is looked at after the members and the properties.
Collection_DecodeGeoJSON_typeLast(x, bytes) ==
    LET r == unmarshalCollection(bytes)
        f == IF r.val.Features # Absent THEN unmarshalFeatures(x.Features, r.val.Features)
             ELSE [val |-> x.Features, err |-> NoError]
        x1 == [x EXCEPT !.Features = f.val]
        p == IF r.val.Properties # Absent THEN unmarshalProps(x1, r.val.Properties)
             ELSE [x |-> x1, err |-> NoError]
    IN  IF r.err # NoError THEN [x |-> x, err |-> r.err]
        ELSE IF f.err # NoError THEN [x |-> x1, err |-> f.err]
        ELSE IF p.err # NoError THEN [x |-> p.x, err |-> p.err]
        ELSE IF r.val.Type # TYPE_FEATURE_COLLECTION
        THEN [x |-> p.x, err |-> ErrUnsupportedType]
        ELSE [x |-> p.x, err |-> NoError]

\* x.Collection.DecodeGeoJSON(bytes, tStruct(x)): [x, err].
Collection_DecodeGeoJSON(x, bytes) ==
    LET r == unmarshalCollection(bytes)
        f == IF r.val.Features # Absent THEN unmarshalFeatures(x.Features, r.val.Features)
             ELSE [val |-> x.Features, err |-> NoError]
        x1 == [x EXCEPT !.Features = f.val]
        p == IF r.val.Properties # Absent THEN unmarshalProps(x1, r.val.Properties)
             ELSE [x |-> x1, err |-> NoError]
    IN  IF r.err # NoError THEN [x |-> x, err |-> r.err]
        ELSE IF r.val.Type # TYPE_FEATURE_COLLECTION
        THEN [x |-> x, err |-> ErrUnsupportedType]
        ELSE IF f.err # NoError THEN [x |-> x1, err |-> f.err]
        ELSE [x |-> p.x, err |-> p.err]

-----------------------------------------------------------------------------
\* The state: a caller holds a host `city`, marshals it into `data` and
\* unmarshals `data` into the host `c`, as the tests do; `geo` is the *V that
\* a geometry document is unmarshalled into directly; `box` is the result of
\* the last BoundingBox() call and tells on which host it was made.  `mem`
\* holds the arrays behind the slices where a caller can write into a slice
\* that a call returned, `held` the slices the caller holds (both are empty
\* where values alone are followed).

VARIABLES city, data, c, geo, err, pc, box, mem, held

vars == <<city, data, c, geo, err, pc, box, mem, held>>

IDs == {"", "city:helsinki"}
Names == {"", "Helsinki"}

\* The Features that the constructors build; New takes any Geometry, also
\* &MultiPolygon{Coords: Surfaces{}}.
Features ==
    {New(id, NoGeometry) : id \in IDs}
    \cup {New(id, Geo("*MultiPolygon", s)) : id \in IDs, s \in Surfaces}
    \cup {NewPoint(id, s) : id \in IDs, s \in Coord}
    \cup {NewMultiPoint(id, s) : id \in IDs, s \in Curve}
    \cup {NewLineString(id, s) : id \in IDs, s \in Curve}
    \cup {NewMultiLineString(id, s) : id \in IDs, s \in Surface}
    \cup {NewPolygon(id, s) : id \in IDs, s \in Surface}
    \cup {NewMultiPolygon(id, s.e) : id \in IDs, s \in Surfaces}

NoCall == [of |-> "none", r |-> NoBox]

Init ==
    /\ mem = <<>>
    /\ held = <<>>
    /\ city \in {GeoJsonCity(fea, name) : fea \in Features, name \in Names}
    /\ data = NoBytes
    /\ c = ZeroCity
    /\ geo = Geo("*Point", NilSlice)
    /\ err = NoError
    /\ pc = "start"
    /\ box = NoCall

\* city.BoundingBox().
BoundingBox ==
    /\ pc = "start"
    /\ box = NoCall
    /\ box' = [of |-> "city", r |-> Feature_BoundingBox(city)]
    /\ UNCHANGED <<city, data, c, geo, err, pc, mem, held>>

\* data, err := json.Marshal(city), that is city.Feature.EncodeGeoJSON(tStruct(city)).
Marshal ==
    /\ pc = "start"
    /\ \E r \in {Feature_EncodeGeoJSON(city, city)} :
           /\ data' = r.bytes
           /\ err' = r.err
           /\ pc' = IF r.err = NoError THEN "marshalled" ELSE "failed"
    /\ UNCHANGED <<city, c, geo, box, mem, held>>

\* err = json.Unmarshal(data, &c), that is c.Feature.DecodeGeoJSON(data, tStruct(&c)).
Unmarshal ==
    /\ pc = "marshalled"
    /\ \E r \in {Feature_DecodeGeoJSON(c, data)} :
           /\ c' = r.x
           /\ err' = r.err
    /\ pc' = "unmarshalled"
    /\ UNCHANGED <<city, data, geo, box, mem, held>>

\* c.BoundingBox() on the decoded host.
DecodedBoundingBox ==
    /\ pc = "unmarshalled"
    /\ box.of # "c"
    /\ box' = [of |-> "c", r |-> Feature_BoundingBox(c)]
    /\ UNCHANGED <<city, data, c, geo, err, pc, mem, held>>

Next == BoundingBox \/ Marshal \/ Unmarshal \/ DecodedBoundingBox

Spec == Init /\ [][Next]_vars

-----------------------------------------------------------------------------
\* The round trip of a collection: here `city` and `c` are GeoJsonCities.

\* The Geometry of the members: none, a Point (also without coordinates), a
\* LineString, a MultiPolygon whose first ring is empty.
MemberGeometries ==
    {NoGeometry}
    \cup {Geo("*Point", s) : s \in Coord}
    \cup {Geo("*LineString", Slice(<<Slice(<<0, MaxCoord>>), Slice(<<MaxCoord, 0>>)>>))}
    \cup {Geo("*MultiPolygon", Slice(<<Slice(<<Slice(<<>>)>>)>>))}

Members ==
    {GeoJsonCity(New(m[1], g), m[2]) :
        m \in {<<"city:hel", "Helsinki">>, <<"", "">>}, g \in MemberGeometries}

Collections ==
    {GeoJsonCities(fs, name) :
        fs \in {NilSlice} \cup {Slice(ms) : ms \in SeqsUpTo(Members, MaxMembers)},
        name \in {"", "Cities"}}

InitCollection ==
    /\ mem = <<>>
    /\ held = <<>>
    /\ city \in Collections
    /\ data = NoBytes
    /\ c = ZeroCities
    /\ geo = Geo("*Point", NilSlice)
    /\ err = NoError
    /\ pc = "cities"
    /\ box = NoCall

\* city.BoundingBox() of the collection.
CollectionBoundingBox ==
    /\ pc = "cities"
    /\ box = NoCall
    /\ box' = [of |-> "cities", r |-> Collection_BoundingBox(city)]
    /\ UNCHANGED <<city, data, c, geo, err, pc, mem, held>>

\* data, err := json.Marshal(city), that is
\* city.Collection.EncodeGeoJSON(tStruct(city)).
MarshalCollection ==
    /\ pc = "cities"
    /\ \E r \in {Collection_EncodeGeoJSON(city, city)} :
           /\ data' = r.bytes
           /\ err' = r.err
           /\ pc' = IF r.err = NoError THEN "cities-marshalled" ELSE "cities-failed"
    /\ UNCHANGED <<city, c, geo, box, mem, held>>

\* err = json.Unmarshal(data, &c), that is
\* c.Collection.DecodeGeoJSON(data, tStruct(&c)).
UnmarshalCollection ==
    /\ pc = "cities-marshalled"
    /\ \E r \in {Collection_DecodeGeoJSON(c, data)} :
           /\ c' = r.x
           /\ err' = r.err
    /\ pc' = "cities-unmarshalled"
    /\ UNCHANGED <<city, data, geo, box, mem, held>>

NextCollection == CollectionBoundingBox \/ MarshalCollection \/ UnmarshalCollection

SpecCollection == InitCollection /\ [][NextCollection]_vars

-----------------------------------------------------------------------------
\* Encoding with the properties values a caller may supply: the host itself
\* (as tStruct), nil, a value that cannot be serialized.  `city` is a
\* GeoJsonCity when pc is "encode-feature", a GeoJsonCities when it is
\* "encode-collection".

\* Geometries with a position of less than two numbers.
ShortGeometries ==
    {Geo("*Point", Slice(<<0>>)),
     Geo("*MultiPoint", Slice(<<Slice(<<0, MaxCoord>>), Slice(<<0>>)>>)),
     Geo("*LineString", Slice(<<Slice(<<0>>)>>)),
     Geo("*LineString", Slice(<<Slice(<<>>)>>)),
     Geo("*LineString", Slice(<<NilSlice, Slice(<<0, MaxCoord>>)>>)),
     Geo("*Polygon", Slice(<<Slice(<<Slice(<<0, MaxCoord>>), Slice(<<0>>)>>)>>)),
     Geo("*MultiPolygon", Slice(<<Slice(<<Slice(<<Slice(<<0>>)>>)>>)>>))}

InitEncode ==
    /\ mem = <<>>
    /\ held = <<>>
    /\ data = NoBytes
    /\ c = ZeroCity
    /\ geo = Geo("*Point", NilSlice)
    /\ err = NoError
    /\ box = NoCall
    /\ \/ /\ pc = "encode-feature"
          /\ city \in {GeoJsonCity(fea, name) : fea \in Features, name \in Names}
                      \cup {GeoJsonCity(New(id, g), "Helsinki") :
                              id \in IDs, g \in ShortGeometries}
       \/ /\ pc = "encode-collection"
          /\ city \in Collections

\* data, err := city.Feature.EncodeGeoJSON(props).
EncodeFeature ==
    /\ pc = "encode-feature"
    /\ \E props \in {"host", "nil", "chan"} :
         /\ \E r \in {Feature_EncodeGeoJSON(city, CASE props = "host" -> city
                                                    [] props = "nil" -> NilProps
                                                    [] props = "chan" -> ChanProps)} :
              /\ data' = r.bytes
              /\ err' = r.err
         /\ pc' = CASE props = "host" -> "feature-encoded-host"
                    [] props = "nil" -> "feature-encoded-nil"
                    [] props = "chan" -> "feature-encoded-chan"
    /\ UNCHANGED <<city, c, geo, box, mem, held>>

\* data, err := city.Collection.EncodeGeoJSON(props).
EncodeCollection ==
    /\ pc = "encode-collection"
    /\ \E props \in {"host", "nil", "chan"} :
         /\ \E r \in {Collection_EncodeGeoJSON(city, CASE props = "host" -> city
                                                       [] props = "nil" -> NilProps
                                                       [] props = "chan" -> ChanProps)} :
              /\ data' = r.bytes
              /\ err' = r.err
         /\ pc' = CASE props = "host" -> "collection-encoded-host"
                    [] props = "nil" -> "collection-encoded-nil"
                    [] props = "chan" -> "collection-encoded-chan"
    /\ UNCHANGED <<city, c, geo, box, mem, held>>

NextEncode == EncodeFeature \/ EncodeCollection

SpecEncode == InitEncode /\ [][NextEncode]_vars

-----------------------------------------------------------------------------
\* Decoding of documents that a caller receives: a Feature document into
\* a host, a geometry document directly into a *V, a collection document
\* into a host (then `c` is a GeoJsonCities).

\* ObjectOf(ms): the object of the members of ms that are there.
ObjectOf(ms) == JObj(SelectSeq(ms, LAMBDA m : m.val # Absent))

P0 == MarshalShape(1, Slice(<<0, MaxCoord>>))
P1 == MarshalShape(1, Slice(<<MaxCoord, 0>>))

\* The `type` members of the geometry documents.
TypeMembers ==
    {Absent, JNull, JNum(1234)}
    \cup {JStr(t) : t \in {"", typePoint, typeMultiPoint, typeLineString,
                           typeMultiLineString, typePolygon, typeMultiPolygon,
                           "Unknown", "point"}}

\* The `coordinates` members of the geometry documents: numbers 1 to 4 deep,
\* empty arrays, a position of one number, a string.
CoordinatesMembers ==
    {Absent, JNull, JStr("unknown"), JArr(<<>>), JArr(<<JArr(<<>>)>>),
     JArr(<<JNum(1)>>), P0, JArr(<<P0, P1>>), JArr(<<JArr(<<P0, P1>>)>>),
     JArr(<<JArr(<<JArr(<<P0>>)>>)>>)}

GeometryDocuments ==
    {JNull, JNum(5)}
    \cup {ObjectOf(<<Member("type", t), Member("coordinates", cs)>>) :
            t \in TypeMembers, cs \in CoordinatesMembers}

PropertiesMembers ==
    {Absent, JNull, JStr("Helsinki"), JObj(<<>>),
     JObj(<<Member("name", JStr("Helsinki"))>>), JObj(<<Member("name", JNum(5))>>)}

FeatureDocuments ==
    {JBad, JNull, JNum(5)}
    \cup {ObjectOf(<<Member("type", t), Member("id", id), Member("geometry", g),
                     Member("properties", ps)>>) :
            t \in {Absent, JNum(5), JStr(TYPE_FEATURE), JStr("feature"),
                   JStr("Unknown"), JStr("FeatureCollection")},
            id \in {Absent, JNum(5), JStr("city:helsinki")},
            g \in {Absent} \cup GeometryDocuments,
            ps \in PropertiesMembers}

\* The members of the `features` of the collection documents: two Features,
\* an object of another type, a Feature whose geometry is not supported.
MemberDocuments ==
    {ObjectOf(<<Member("type", JStr(t)), Member("id", JStr("city:helsinki")),
                Member("geometry", g),
                Member("properties", JObj(<<Member("name", JStr("Helsinki"))>>))>>) :
        t \in {TYPE_FEATURE}, g \in {JNull, ObjectOf(<<Member("type", JStr(typePoint)),
                                                     Member("coordinates", P0)>>),
                                   ObjectOf(<<Member("type", JStr("Unknown")),
                                              Member("coordinates", P0)>>)}}
    \cup {ObjectOf(<<Member("type", JStr("Unknown")), Member("geometry", JNull)>>)}

CollectionDocuments ==
    {JBad, JNull, JNum(5)}
    \cup {ObjectOf(<<Member("type", t), Member("bbox", bbox), Member("features", fs),
                     Member("properties", ps)>>) :
            t \in {Absent, JNum(5), JStr(TYPE_FEATURE_COLLECTION), JStr(TYPE_FEATURE),
                   JStr("Unknown"), JStr("featurecollection")},
            bbox \in {Absent, JStr("unknown"), JArr(<<JNum(0), JNum(0), JNum(1), JNum(1)>>)},
            fs \in {Absent, JNull, JStr("unknown")}
                   \cup {JArr(ms) : ms \in SeqsUpTo(MemberDocuments, MaxMembers)},
            ps \in PropertiesMembers}

\* A host that holds values before it is decoded into.
OldCity == GeoJsonCity(NewPoint("city:old", Slice(<<MaxCoord, MaxCoord>>)), "Old")

OldCities == GeoJsonCities(Slice(<<OldCity, OldCity>>), "Old")

RECURSIVE Nested(_)
\* A shape of depth d that holds one position.
Nested(d) == IF d = 1 THEN Slice(<<MaxCoord, MaxCoord>>) ELSE Slice(<<Nested(d - 1)>>)

InitDecode ==
    /\ mem = <<>>
    /\ held = <<>>
    /\ city = ZeroCity
    /\ err = NoError
    /\ box = NoCall
    /\ \/ /\ pc = "feature"
          /\ data \in FeatureDocuments
          /\ c \in {ZeroCity, OldCity}
          /\ geo = Geo("*Point", NilSlice)
       \/ /\ pc = "geometry"
          /\ data \in GeometryDocuments \cup {JBad}
          /\ c = ZeroCity
          /\ geo \in {Geo(v, s) : v \in Variants, s \in {NilSlice}}
                    \cup {Geo(v, Nested(Depth(v))) : v \in Variants}
       \/ /\ pc = "collection"
          /\ data \in CollectionDocuments
          /\ c \in {ZeroCities, OldCities}
          /\ geo = Geo("*Point", NilSlice)

\* err = json.Unmarshal(data, &c) of a received document.
DecodeFeature ==
    /\ pc = "feature"
    /\ \E r \in {Feature_DecodeGeoJSON(c, data)} :
           /\ c' = r.x
           /\ err' = r.err
    /\ pc' = "decoded-feature"
    /\ UNCHANGED <<city, data, geo, box, mem, held>>

\* err = json.Unmarshal(data, geo), geo a *V.
DecodeVariant ==
    /\ pc = "geometry"
    /\ \E r \in {Variant_UnmarshalJSON(geo.variant, geo, data)} :
           /\ geo' = r.geo
           /\ err' = r.err
    /\ pc' = "decoded-variant"
    /\ UNCHANGED <<city, data, c, box, mem, held>>

\* err = json.Unmarshal(data, &c) of a received collection document.
DecodeCollection ==
    /\ pc = "collection"
    /\ \E r \in {Collection_DecodeGeoJSON(c, data)} :
           /\ c' = r.x
           /\ err' = r.err
    /\ pc' = "decoded-collection"
    /\ UNCHANGED <<city, data, geo, box, mem, held>>

\* data, err := json.Marshal(geo), geo a *V: before or after the decoding.
MarshalVariant ==
    /\ pc \in {"geometry", "decoded-variant"}
    /\ err = NoError
    /\ data' = Geometry_MarshalJSON(geo)
    /\ pc' = "marshalled-variant"
    /\ UNCHANGED <<city, c, geo, err, box, mem, held>>

\* c.BoundingBox() on the host of a document that was decoded without error.
DecodedFeatureBoundingBox ==
    /\ pc = "decoded-feature"
    /\ err = NoError
    /\ box' = [of |-> "c", r |-> Feature_BoundingBox(c)]
    /\ pc' = "boxed-feature"
    /\ UNCHANGED <<city, data, c, geo, err, mem, held>>

\* c.BoundingBox() on the collection of a document that was decoded without
\* error.
DecodedCollectionBoundingBox ==
    /\ pc = "decoded-collection"
    /\ err = NoError
    /\ box' = [of |-> "cities", r |-> Collection_BoundingBox(c)]
    /\ pc' = "boxed-collection"
    /\ UNCHANGED <<city, data, c, geo, err, mem, held>>

NextDecode ==
    \/ DecodeFeature
    \/ DecodeVariant
    \/ DecodeCollection
    \/ MarshalVariant
    \/ DecodedFeatureBoundingBox
    \/ DecodedCollectionBoundingBox

SpecDecode == InitDecode /\ [][NextDecode]_vars

-----------------------------------------------------------------------------
\* The calls of a program that keeps a collection and the boxes it was given.
\* A BoundingBox is a slice, and Join writes into the array of its receiver,
\* so here the arrays are followed: mem[a] is the array at the address a, the
\* Coords of the member i of the collection are the array i, and a slice is
\* known by the address of its array (0 for the nil slice).  `city` keeps the
\* collection as it was built.

\* The number of arrays that the calls of a run allocate at most.
MaxArrays == 3

Allocated(m, x) == Len(m) - len(x.Features)

NilRef == 0

\* The element of a set of one element: Only({e(v) : v \in {d}}) is e with v
\* standing for the value of d.
Only(S) == CHOOSE v \in S : TRUE
At(m, ref) == IF ref = NilRef THEN NilSlice ELSE m[ref]

\* Mutant: the box is written into the array that was allocated last.
new_reused(m, arr) ==
    IF Len(m) = 0 THEN [mem |-> <<arr>>, ref |-> 1, fault |-> FALSE]
    ELSE [mem |-> [m EXCEPT ![Len(m)] = arr], ref |-> Len(m), fault |-> FALSE]

\* BoundingBox{w, s, e, n}: the composite literal allocates an array of its
\* own.
new(m, arr) == [mem |-> Append(m, arr), ref |-> Len(m) + 1, fault |-> FALSE]

FaultAt(m) == [mem |-> m, ref |-> NilRef, fault |-> TRUE]

\* What a BoundingBox() call hands out for the value r it computed.
Returned(m, r) ==
    IF r.fault THEN FaultAt(m)
    ELSE IF r.box = NilSlice THEN [mem |-> m, ref |-> NilRef, fault |-> FALSE]
    ELSE new(m, r.box)

\* The member i of x, and x, with the coordinates the arrays hold.
MemberAt(m, x, i) == [x.Features.e[i] EXCEPT !.Geometry.Coords = m[i]]
CitiesAt(m, x) ==
    [x EXCEPT !.Features.e = [i \in 1..len(x.Features) |-> MemberAt(m, x, i)]]

\* c.Features[i].BoundingBox().
Feature_BoundingBox_at(m, x, i) == Returned(m, Feature_BoundingBox(MemberAt(m, x, i)))

\* The loop of Collection.BoundingBox from the member i on: Join writes into
\* the array of bbox.
RECURSIVE joinFeatures_at(_, _, _, _)
joinFeatures_at(m, bbox, x, i) ==
    IF i > len(x.Features) THEN [mem |-> m, ref |-> bbox, fault |-> FALSE]
    ELSE Only({
           Only({
             IF j.fault THEN FaultAt(b.mem)
             ELSE Only({joinFeatures_at(joined, bbox, x, i + 1) :
                           joined \in {[b.mem EXCEPT ![bbox] = j.box]}}) :
             j \in {IF b.fault THEN Fault
                    ELSE Join(At(b.mem, bbox), At(b.mem, b.ref))}}) :
           b \in {Feature_BoundingBox_at(m, x, i)}})

\* c.BoundingBox().
Collection_BoundingBox_at(m, x) ==
    IF len(x.Features) = 0 THEN [mem |-> m, ref |-> NilRef, fault |-> FALSE]
    ELSE Only({
           IF bbox.fault THEN bbox
           ELSE Only({joinFeatures_at(seeded, bbox.ref, x, 2) : seeded \in {bbox.mem}}) :
           bbox \in {Feature_BoundingBox_at(m, x, 1)}})

\* The boxes that the encodings of the members from i on ask for.
RECURSIVE marshalFeatures_at(_, _, _)
marshalFeatures_at(m, x, i) ==
    IF i > len(x.Features) THEN [mem |-> m, ref |-> NilRef, fault |-> FALSE]
    ELSE Only({
           IF b.fault THEN b
           ELSE Only({marshalFeatures_at(boxed, x, i + 1) : boxed \in {b.mem}}) :
           b \in {Returned(m, encodedBBox(MemberAt(m, x, i)))}})

\* c.EncodeGeoJSON(props) of the host x: [mem, bytes, err].
Collection_EncodeGeoJSON_at(m, x) ==
    Only({
      Only({
        Only({[mem |-> features.mem, bytes |-> r.bytes, err |-> r.err] :
                 features \in {IF bbox.fault THEN bbox
                               ELSE marshalFeatures_at(bbox.mem, x, 1)}}) :
        bbox \in {Collection_BoundingBox_at(m, x)}}) :
      r \in {Collection_EncodeGeoJSON(CitiesAt(m, x), CitiesAt(m, x))}})

LocatedGeometries ==
    {NoGeometry}
    \cup {Geo("*Point", s) : s \in Position}
    \cup {Geo("*LineString", Slice(<<Slice(<<0, MaxCoord>>), Slice(<<MaxCoord, 0>>)>>))}
    \cup {Geo("*MultiPolygon",
               Slice(<<Slice(<<Slice(<<Slice(<<0, MaxCoord>>)>>)>>),
                       Slice(<<Slice(<<Slice(<<MaxCoord, 0>>)>>)>>)>>))}

CallMembers == {GeoJsonCity(New("city:hel", g), "Helsinki") : g \in LocatedGeometries}

InitCalls ==
    /\ city \in {GeoJsonCities(Slice(ms), "Cities") :
                    ms \in SeqsUpTo(CallMembers, MaxMembers) \ {<<>>}}
    /\ mem = [i \in 1..len(city.Features) |-> city.Features.e[i].Geometry.Coords]
    /\ held = <<>>
    /\ data = NoBytes
    /\ c = ZeroCities
    /\ geo = Geo("*Point", NilSlice)
    /\ err = NoError
    /\ pc = "calls"
    /\ box = NoCall

\* bbox := city.Features[i].BoundingBox(); the program keeps bbox.
CallFeatureBoundingBox ==
    /\ pc = "calls"
    /\ \E i \in 1..len(city.Features) :
         \E r \in {Feature_BoundingBox_at(mem, city, i)} :
           /\ Allocated(r.mem, city) <= MaxArrays
           /\ mem' = r.mem
           /\ held' = IF r.ref = NilRef THEN held ELSE Append(held, r.ref)
           /\ box' = [of |-> "member", i |-> i,
                      r |-> [fault |-> r.fault, box |-> At(r.mem, r.ref)]]
           /\ pc' = IF r.fault THEN "fault" ELSE pc
    /\ UNCHANGED <<city, data, c, geo, err>>

\* bbox := city.BoundingBox(); the program keeps bbox.
CallCollectionBoundingBox ==
    /\ pc = "calls"
    /\ \E r \in {Collection_BoundingBox_at(mem, city)} :
           /\ Allocated(r.mem, city) <= MaxArrays
           /\ mem' = r.mem
           /\ held' = IF r.ref = NilRef THEN held ELSE Append(held, r.ref)
           /\ box' = [of |-> "cities", i |-> 0,
                      r |-> [fault |-> r.fault, box |-> At(r.mem, r.ref)]]
           /\ pc' = IF r.fault THEN "fault" ELSE pc
    /\ UNCHANGED <<city, data, c, geo, err>>

\* held[a].Join(held[b]) on two boxes the program keeps.
CallJoin ==
    /\ pc = "calls"
    /\ \E a \in 1..Len(held), b \in 1..Len(held) :
         \E j \in {Join(mem[held[a]], mem[held[b]])} :
           /\ ~j.fault
           /\ mem' = [mem EXCEPT ![held[a]] = j.box]
    /\ UNCHANGED <<city, data, c, geo, err, pc, box, held>>

\* data, err = json.Marshal(city).
CallMarshal ==
    /\ pc = "calls"
    /\ \E r \in {Collection_EncodeGeoJSON_at(mem, city)} :
           /\ Allocated(r.mem, city) <= MaxArrays
           /\ mem' = r.mem
           /\ data' = r.bytes
           /\ err' = r.err
           /\ pc' = IF r.err = Panic THEN "fault" ELSE pc
    /\ UNCHANGED <<city, c, geo, box, held>>

NextCalls ==
    CallFeatureBoundingBox \/ CallCollectionBoundingBox \/ CallJoin \/ CallMarshal

SpecCalls == InitCalls /\ [][NextCalls]_vars

-----------------------------------------------------------------------------
\* The calls of position.go on their own: FMap of a shape with a visitor
\* that appends the Coord it is given to `held`, and Join on two boxes of
\* four numbers, the arrays 1 and 2 of `mem`.

\* The shapes, each with the variant whose Coords it can be.
Shapes ==
    {Geo("*Point", s) : s \in Coord}
    \cup {Geo("*LineString", s) : s \in Curve}
    \cup {Geo("*Polygon", s) : s \in Surface}
    \cup {Geo("*MultiPolygon", s) : s \in Surfaces}

\* BoundingBox{w, s, e, n} of any four numbers.
Boxes == {Slice(b) : b \in [1..4 -> Num]}

InitPosition ==
    /\ city = ZeroCity
    /\ data = NoBytes
    /\ c = ZeroCity
    /\ err = NoError
    /\ box = NoCall
    /\ held = <<>>
    /\ \/ /\ pc = "shape"
          /\ geo \in Shapes
          /\ mem = <<>>
       \/ /\ pc = "boxes"
          /\ geo = Geo("*Point", NilSlice)
          /\ mem \in {<<a, b>> : a \in Boxes, b \in Boxes}

\* geo.Coords.FMap(func(x Coord) { held = append(held, x) }).
CallFMap ==
    /\ pc = "shape"
    /\ held' = FMap(Depth(geo.variant), geo.Coords)
    /\ pc' = "visited"
    /\ UNCHANGED <<city, data, c, geo, err, box, mem>>

\* a.Join(b).
JoinAB ==
    /\ pc = "boxes"
    /\ \E j \in {Join(mem[1], mem[2])} :
           /\ ~j.fault
           /\ mem' = [mem EXCEPT ![1] = j.box]
    /\ pc' = "joined"
    /\ UNCHANGED <<city, data, c, geo, err, box, held>>

\* a.Join(a).
JoinAA ==
    /\ pc = "boxes"
    /\ \E j \in {Join(mem[1], mem[1])} :
           /\ ~j.fault
           /\ mem' = [mem EXCEPT ![1] = j.box]
    /\ pc' = "joined-self"
    /\ UNCHANGED <<city, data, c, geo, err, box, held>>

\* b.Join(a).
JoinBA ==
    /\ pc = "boxes"
    /\ \E j \in {Join(mem[2], mem[1])} :
           /\ ~j.fault
           /\ mem' = [mem EXCEPT ![2] = j.box]
    /\ pc' = "joined-reverse"
    /\ UNCHANGED <<city, data, c, geo, err, box, held>>

NextPosition == CallFMap \/ JoinAB \/ JoinAA \/ JoinBA

SpecPosition == InitPosition /\ [][NextPosition]_vars

-----------------------------------------------------------------------------
\* Claims on the round trip of a Feature host.

\* C1: for each of the six variants and every coordinate shape, populated or
\* empty, marshalling a Feature that holds the geometry succeeds, and
\* unmarshalling the bytes succeeds and yields a geometry of the same variant
\* with equal coordinates.
C1_GeometryRoundTrip ==
    city.Geometry # NoGeometry =>
        /\ pc # "failed"
        /\ pc = "unmarshalled" => /\ err = NoError
                                  /\ c.Geometry.variant = city.Geometry.variant
                                  /\ c.Geometry.Coords = city.Geometry.Coords

C9_Unlocated ==
    city.Geometry = NoGeometry =>
        /\ box.of = "city" => box.r = NoBox
        /\ pc # "failed"
        /\ pc \in {"marshalled", "unmarshalled"} =>
                /\ Field(data, "geometry") = JNull
                /\ Field(data, "bbox") = Absent
        /\ pc = "unmarshalled" => (err = NoError /\ c.Geometry = NoGeometry)
        /\ box.of = "c" => box.r = NoBox

C9_Witness ==
    /\ city.Geometry = NoGeometry
    /\ pc = "unmarshalled"
    /\ box.of = "c"

\* The geometries that the six constructors build of nil coordinates or of an
\* empty container.
EmptyGeometries ==
    {NewPoint("", s).Geometry : s \in {NilSlice, Slice(<<>>)}}
    \cup {NewMultiPoint("", s).Geometry : s \in {NilSlice, Slice(<<>>)}}
    \cup {NewLineString("", s).Geometry : s \in {NilSlice, Slice(<<>>)}}
    \cup {NewMultiLineString("", s).Geometry : s \in {NilSlice, Slice(<<>>)}}
    \cup {NewPolygon("", s).Geometry : s \in {NilSlice, Slice(<<>>)}}
    \cup {NewMultiPolygon("", <<s>>).Geometry : s \in {NilSlice, Slice(<<>>)}}
    \cup {NewMultiPolygon("", <<>>).Geometry}

\* C10: BoundingBox() of a Feature built by any of the six constructors of nil
\* coordinates or of an empty container is absent: no fault and no box.
C10_EmptyHasNoBox ==
    (box.of = "city" /\ city.Geometry \in EmptyGeometries) => box.r = NoBox

C10_Witness ==
    /\ box.of = "city"
    /\ city.Geometry = NewMultiPolygon("", <<Slice(<<>>)>>).Geometry
    /\ box.r = NoBox

-----------------------------------------------------------------------------
\* Claims on the decoding of received documents.

TypeTags ==
    {typePoint, typeMultiPoint, typeLineString, typeMultiLineString,
     typePolygon, typeMultiPolygon}

\* d is a Feature envelope: an object with the outer type "Feature" and an
\* id that is a string when it is there.
IsFeatureDocument(d) ==
    /\ d.k = "obj"
    /\ Field(d, "type") = JStr(TYPE_FEATURE)
    /\ Field(d, "id").k \in {"absent", "str"}

\* g is a geometry object with a non-empty type string that is none of the
\* six tags.
UnknownType(g) ==
    /\ g.k = "obj"
    /\ Field(g, "type").k = "str"
    /\ Field(g, "type").v \notin TypeTags \cup {""}

\* C5: decoding a geometry object whose type string is non-empty and is not
\* one of the six tags fails with the error that names the type string, inside
\* a Feature (whose Geometry is then not assigned) and directly into a variant.
C5_UnknownTypeNamed ==
    [][ /\ ( /\ pc = "feature" /\ pc' = "decoded-feature"
             /\ IsFeatureDocument(data)
             /\ UnknownType(Field(data, "geometry")) )
           => /\ err' = errNotSupported(Field(Field(data, "geometry"), "type").v)
              /\ c'.Geometry = c.Geometry
        /\ ( /\ pc = "geometry" /\ pc' = "decoded-variant"
             /\ UnknownType(data) )
           => err' = errNotSupported(Field(data, "type").v)
      ]_vars

RECURSIVE NumberDepths(_)
\* The depths of nesting at which the value j holds numbers.
NumberDepths(j) ==
    IF j.k = "num" THEN {0}
    ELSE IF j.k = "arr"
    THEN UNION {{n + 1 : n \in NumberDepths(j.v[i])} : i \in DOMAIN j.v}
    ELSE {}

\* g is a geometry object that selects `variant` and whose coordinates hold
\* a number at another depth than the positions of that variant.
WrongDepth(g, variant) ==
    /\ g.k = "obj"
    /\ \E n \in NumberDepths(Field(g, "coordinates")) : n # Depth(variant)

\* C7: input that is not well-formed JSON, and coordinates with numbers at a
\* depth other than that of the selected variant, return the JSON reader's
\* error; the Feature (or the variant decoded into) keeps what it held.
C7_MalformedSurfaced ==
    [][ /\ (pc = "feature" /\ pc' = "decoded-feature" /\ data = JBad)
           => (err' = SyntaxError /\ c' = c)
        /\ ( /\ pc = "feature" /\ pc' = "decoded-feature"
             /\ IsFeatureDocument(data)
             /\ Field(data, "geometry").k = "obj"
             /\ Field(Field(data, "geometry"), "type").k = "str"
             /\ Field(Field(data, "geometry"), "type").v \in TypeTags
             /\ WrongDepth(Field(data, "geometry"),
                           variantOf(Field(Field(data, "geometry"), "type").v)) )
           => (err' = UnmarshalTypeError /\ c' = c)
        /\ (pc = "geometry" /\ pc' = "decoded-variant" /\ data = JBad)
           => (err' = SyntaxError /\ geo' = geo)
        /\ ( /\ pc = "geometry" /\ pc' = "decoded-variant"
             /\ WrongDepth(data, geo.variant) )
           => (err' = UnmarshalTypeError /\ geo' = geo)
      ]_vars

\* A flat position for a Polygon, decoded into a host that held a geometry.
C7_Witness ==
    /\ pc = "decoded-feature"
    /\ data = ObjectOf(<<Member("type", JStr(TYPE_FEATURE)),
                         Member("id", JStr("city:helsinki")),
                         Member("geometry",
                                ObjectOf(<<Member("type", JStr(typePolygon)),
                                           Member("coordinates", P0)>>)),
                         Member("properties",
                                JObj(<<Member("name", JStr("Helsinki"))>>))>>)
    /\ err = UnmarshalTypeError
    /\ c = OldCity

\* g is JSON null or an object whose type is empty or absent.
NullGeometry(g) ==
    \/ g = JNull
    \/ g.k = "obj" /\ Field(g, "type") \in {Absent, JStr("")}

\* ps is a `properties` member that the host of the tests takes.
DecodableProperties(ps) ==
    \/ ps.k \in {"absent", "null"}
    \/ ps.k = "obj" /\ Field(ps, "name").k \in {"absent", "null", "str"}

\* C8: a Feature document whose geometry is null, or an object with an empty
\* or absent type, decodes without error: Geometry is nil, the id is in ID and
\* the properties are in the host.
C8_NullGeometry ==
    [][ ( /\ pc = "feature" /\ pc' = "decoded-feature"
          /\ IsFeatureDocument(data)
          /\ NullGeometry(Field(data, "geometry"))
          /\ DecodableProperties(Field(data, "properties")) )
        => /\ err' = NoError
           /\ c'.Geometry = NoGeometry
           /\ c'.ID = UnmarshalString(Field(data, "id")).val
           /\ c'.Name = IF /\ Field(data, "properties").k = "obj"
                           /\ Field(Field(data, "properties"), "name").k = "str"
                        THEN Field(Field(data, "properties"), "name").v
                        ELSE c.Name
      ]_vars

\* A typeless geometry object with coordinates, decoded into a host.
C8_Witness ==
    /\ pc = "decoded-feature"
    /\ data = ObjectOf(<<Member("type", JStr(TYPE_FEATURE)),
                         Member("id", JStr("city:helsinki")),
                         Member("geometry",
                                ObjectOf(<<Member("coordinates", P0)>>)),
                         Member("properties",
                                JObj(<<Member("name", JStr("Helsinki"))>>))>>)
    /\ err = NoError
    /\ c = GeoJsonCity(New("city:helsinki", NoGeometry), "Helsinki")

-----------------------------------------------------------------------------
\* Claims on collections.

C4_UnlocatedRoundTrip ==
    ( /\ pc \in {"cities-marshalled", "cities-failed", "cities-unmarshalled"}
      /\ \A i \in 1..len(city.Features) : city.Features.e[i].Geometry = NoGeometry )
    => /\ err = NoError
       /\ pc # "cities-failed"
       /\ pc = "cities-unmarshalled" =>
            /\ len(c.Features) = len(city.Features)
            /\ \A i \in 1..len(city.Features) : c.Features.e[i] = city.Features.e[i]
            /\ c.Name = city.Name

\* d is an envelope whose typed members have the JSON kinds of their fields.
IsEnvelope(d) ==
    \/ d.k = "null"
    \/ /\ d.k = "obj"
       /\ Field(d, "type").k \in {"absent", "null", "str"}
       /\ Field(d, "id").k \in {"absent", "null", "str"}
       /\ Field(d, "bbox").k \in {"absent", "null", "arr"}

\* C6: a Feature document whose outer type is not "Feature", and a
\* collection document whose outer type is not "FeatureCollection", are
\* rejected with the unsupported-type error and the host keeps all it held:
\* ID, Geometry, members, Name.
C6_OuterTypeRejected ==
    [][ /\ ( /\ pc = "feature" /\ pc' = "decoded-feature"
             /\ IsEnvelope(data)
             /\ (data.k = "obj" => Field(data, "type") # JStr(TYPE_FEATURE)) )
           => (err' = ErrUnsupportedType /\ c' = c)
        /\ ( /\ pc = "collection" /\ pc' = "decoded-collection"
             /\ IsEnvelope(data)
             /\ (data.k = "obj" => Field(data, "type") # JStr(TYPE_FEATURE_COLLECTION)) )
           => (err' = ErrUnsupportedType /\ c' = c)
      ]_vars

\* A collection document of type "Feature" with two members and a name,
\* decoded into a host that held members and a name.
C6_Witness ==
    /\ pc = "decoded-collection"
    /\ data.k = "obj"
    /\ Field(data, "type") = JStr(TYPE_FEATURE)
    /\ Field(data, "features").k = "arr"
    /\ Len(Field(data, "features").v) = 2
    /\ \A i \in 1..2 : Feature_DecodeGeoJSON(ZeroCity, Field(data, "features").v[i]).err = NoError
    /\ Field(data, "properties") = JObj(<<Member("name", JStr("Helsinki"))>>)
    /\ err = ErrUnsupportedType
    /\ c = OldCities

-----------------------------------------------------------------------------
\* Claims on bounding boxes.

RECURSIVE Leaves(_, _)
\* The set of the leaf coordinates of a shape of depth d.
Leaves(d, shape) ==
    IF d = 1 THEN {shape}
    ELSE UNION {Leaves(d - 1, shape.e[i]) : i \in 1..len(shape)}

Min(S) == CHOOSE x \in S : \A y \in S : x <= y
Max(S) == CHOOSE x \in S : \A y \in S : x >= y

\* [min x, min y, max x, max y] over a non-empty set of positions.
MinMax(ps) ==
    Slice(<<Min({p.e[1] : p \in ps}), Min({p.e[2] : p \in ps}),
            Max({p.e[1] : p \in ps}), Max({p.e[2] : p \in ps})>>)

\* BoundingBox() was called on `city`, which has a Geometry, and returned a
\* box.
BoxDefined ==
    /\ box.of = "city"
    /\ city.Geometry # NoGeometry
    /\ ~box.r.fault
    /\ len(box.r.box) > 0

\* C11: a defined box is [min x, min y, max x, max y] over every
\* leaf coordinate of the geometry, so that every coordinate lies inside it.
C11_BoxOfAllLeaves ==
    BoxDefined =>
        LET ps == Leaves(Depth(city.Geometry.variant), city.Geometry.Coords)
        IN  /\ box.r.box = MinMax(ps)
            /\ \A p \in ps : /\ box.r.box.e[1] <= p.e[1] /\ p.e[1] <= box.r.box.e[3]
                             /\ box.r.box.e[2] <= p.e[2] /\ p.e[2] <= box.r.box.e[4]

\* The boxes of the members of the collection host x that have one.
MemberBoxes(x) ==
    {Feature_BoundingBox(x.Features.e[i]).box : i \in 1..len(x.Features)}
        \ {NilSlice}

\* C12: Collection.BoundingBox() returns, without fault, the fold of the
\* boxes of the members that have one, wherever they stand: members without
\* a box are skipped, and the result is absent only when no member has a box.
\* (Stated for the members whose own BoundingBox() returns.)
C12_FoldSkipsAbsent ==
    ( /\ box.of = "cities"
      /\ \A i \in 1..len(city.Features) : ~Feature_BoundingBox(city.Features.e[i]).fault )
    =>
        /\ ~box.r.fault
        /\ box.r.box =
             IF MemberBoxes(city) = {} THEN NilSlice
             ELSE Slice(<<Min({b.e[1] : b \in MemberBoxes(city)}),
                          Min({b.e[2] : b \in MemberBoxes(city)}),
                          Max({b.e[3] : b \in MemberBoxes(city)}),
                          Max({b.e[4] : b \in MemberBoxes(city)})>>)

\* The members of the collection host x are Points with a position, and
\* there is one at least.
PointMembers(x) ==
    /\ len(x.Features) > 0
    /\ \A i \in 1..len(x.Features) :
         /\ x.Features.e[i].Geometry.variant = "*Point"
         /\ len(x.Features.e[i].Geometry.Coords) >= 2

\* C13: for a collection of Point features the box of Collection.BoundingBox(),
\* which is written as the `bbox` of the collection, covers all the member
\* points, while each member is written without a `bbox` of its own.
C13_PointsAggregate ==
    PointMembers(city) =>
        LET ps == {city.Features.e[i].Geometry.Coords : i \in 1..len(city.Features)}
        IN  /\ box.of = "cities" => box.r = [fault |-> FALSE, box |-> MinMax(ps)]
            /\ pc # "cities-failed"
            /\ pc \in {"cities-marshalled", "cities-unmarshalled"} =>
                 /\ Field(data, "bbox") = MarshalShape(1, MinMax(ps))
                 /\ Len(Field(data, "features").v) = len(city.Features)
                 /\ \A i \in 1..len(city.Features) :
                      /\ Field(Field(data, "features").v[i], "bbox") = Absent
                      /\ Field(Field(data, "features").v[i], "geometry")
                            = Geometry_MarshalJSON(city.Features.e[i].Geometry)

\* Two Points at (0, MaxCoord) and (MaxCoord, 0): the box spans both.
C13_Witness ==
    /\ pc = "cities-marshalled"
    /\ PointMembers(city)
    /\ len(city.Features) = 2
    /\ city.Features.e[1].Geometry.Coords = Slice(<<0, MaxCoord>>)
    /\ city.Features.e[2].Geometry.Coords = Slice(<<MaxCoord, 0>>)
    /\ box.of = "cities"
    /\ Field(data, "bbox") = JArr(<<JNum(0), JNum(0), JNum(MaxCoord), JNum(MaxCoord)>>)

-----------------------------------------------------------------------------
\* Claims on the members that the encoders write.

\* C14: Feature.EncodeGeoJSON writes a `bbox` exactly when the Geometry is
\* not nil, is not a Point and has a box, and the value is that box; for the
\* nil Geometry, for a Point (also one with coordinates) and for a geometry
\* without a box there is no `bbox`.
C14_BBoxMember ==
    pc = "marshalled" =>
        Field(data, "bbox") =
            IF /\ city.Geometry # NoGeometry
               /\ city.Geometry.variant # "*Point"
               /\ len(Geometry_BoundingBox(city.Geometry).box) > 0
            THEN MarshalShape(1, Geometry_BoundingBox(city.Geometry).box)
            ELSE Absent

\* A LineString of two positions is written with its box.
C14_Witness ==
    /\ pc = "marshalled"
    /\ city.Geometry = Geo("*LineString",
                           Slice(<<Slice(<<0, MaxCoord>>), Slice(<<MaxCoord, 0>>)>>))
    /\ Field(data, "bbox") = JArr(<<JNum(0), JNum(0), JNum(MaxCoord), JNum(MaxCoord)>>)

\* C15: Feature.EncodeGeoJSON and Collection.EncodeGeoJSON write no
\* `properties` member when the properties value is nil, and write it when
\* there is a properties fragment.
C15_NilPropertiesOmitted ==
    /\ (pc \in {"feature-encoded-nil", "collection-encoded-nil"} /\ err = NoError)
       => Field(data, "properties") = Absent
    /\ (pc \in {"feature-encoded-host", "collection-encoded-host"} /\ err = NoError)
       => Field(data, "properties").k = "obj"

-----------------------------------------------------------------------------
\* Claims on the errors of decoding.

\* d is an envelope whose outer type is a string other than `tag`.
WrongOuterType(d, tag) ==
    /\ IsEnvelope(d)
    /\ d.k = "obj"
    /\ Field(d, "type").k = "str"
    /\ Field(d, "type").v # tag

\* C16: the unsupported-type error carries the offending type string at every
\* level: for the outer type of a Feature document, for the outer type of a
\* collection document, and for the type of a geometry.
C16_ErrorCarriesType ==
    /\ (pc = "decoded-feature" /\ WrongOuterType(data, TYPE_FEATURE))
       => err.type = Field(data, "type").v
    /\ (pc = "decoded-collection" /\ WrongOuterType(data, TYPE_FEATURE_COLLECTION))
       => err.type = Field(data, "type").v
    /\ ( /\ pc = "decoded-feature"
         /\ IsFeatureDocument(data)
         /\ UnknownType(Field(data, "geometry")) )
       => err.type = Field(Field(data, "geometry"), "type").v

\* C17: decoding is all-or-nothing: whenever Feature.DecodeGeoJSON returns an
\* error the host keeps its ID, Geometry and Name, and whenever
\* Collection.DecodeGeoJSON returns an error the host keeps its members and
\* its Name.
C17_AllOrNothing ==
    [][ /\ (pc = "feature" /\ pc' = "decoded-feature" /\ err' # NoError) => c' = c
        /\ (pc = "collection" /\ pc' = "decoded-collection" /\ err' # NoError) => c' = c
      ]_vars

\* C18: the type on the wire and the variant agree: the encoder of a variant
\* writes its own tag, and decoding a document directly into a *V succeeds
\* only when the type of the document is the tag of V; with any other type
\* (another tag, an empty or absent type) it fails with an error and the
\* value decoded into is unchanged.
C18_TypeMatchesVariant ==
    [][ /\ (pc = "geometry" /\ pc' = "decoded-variant" /\ err' = NoError)
           => (data.k = "obj" /\ Field(data, "type") = JStr(TypeOf(geo.variant)))
        /\ ( /\ pc = "geometry" /\ pc' = "decoded-variant"
             /\ data.k = "obj"
             /\ Field(data, "type") # JStr(TypeOf(geo.variant)) )
           => (err' \notin {NoError, Panic} /\ geo' = geo)
        /\ pc' = "marshalled-variant"
           => Field(data', "type") = JStr(TypeOf(geo.variant))
      ]_vars

\* A MultiPoint document, whose coordinates fit a LineString, decoded into a
\* LineString that held a position.
C18_Witness ==
    /\ pc = "decoded-variant"
    /\ data = ObjectOf(<<Member("type", JStr(typeMultiPoint)),
                         Member("coordinates", JArr(<<P0, P1>>))>>)
    /\ geo = Geo("*LineString", Nested(2))
    /\ err = errNotSupported(typeMultiPoint)

\* C19: BoundingBox() and EncodeGeoJSON leave the coordinates, the IDs, the
\* geometries and the member sequence of their receiver as they were, and
\* each call returns a value of its own: whatever the program has written
\* into the boxes it was given, and however often it has called, a call
\* returns the box, and the encoding writes the bytes, that the collection as
\* it was built has.
C19_FreshAndUnmodified ==
    pc \in {"calls", "fault"} =>
        /\ \A i \in 1..len(city.Features) :
               mem[i] = city.Features.e[i].Geometry.Coords
        /\ box # NoCall =>
               box.r = IF box.of = "cities" THEN Collection_BoundingBox(city)
                       ELSE Feature_BoundingBox(city.Features.e[box.i])
        /\ data # NoBytes => data = Collection_EncodeGeoJSON(city, city).bytes

\* The program joined the box of the second member into the box it had got
\* for the first one, and asked for the box of the first member once more.
C19_Witness ==
    /\ pc = "calls"
    /\ len(city.Features) = 2
    /\ Len(held) = 3
    /\ mem[held[1]] = Slice(<<0, 0, MaxCoord, MaxCoord>>)
    /\ box = [of |-> "member", i |-> 1, r |-> [fault |-> FALSE, box |-> mem[held[3]]]]
    /\ mem[held[3]] # mem[held[1]]

\* C20: Feature.EncodeGeoJSON returns the error of the serialization and no
\* bytes for a properties value that cannot be serialized, and bytes and no
\* error for every Feature with a properties value that can.
C20_FailsOnlyOnProperties ==
    /\ pc = "feature-encoded-chan" => (err = UnsupportedTypeError /\ data = NoBytes)
    /\ pc \in {"feature-encoded-host", "feature-encoded-nil"}
           => (err = NoError /\ data # NoBytes)

\* The shape of g is empty at some level on the way to its first leaf.
EmptyOnPath(g) ==
    CASE g.variant \in {"*Point", "*MultiPoint", "*LineString"} -> len(g.Coords) = 0
      [] g.variant \in {"*MultiLineString", "*Polygon"} ->
            len(g.Coords) = 0 \/ len(g.Coords.e[1]) = 0
      [] g.variant = "*MultiPolygon" ->
            \/ len(g.Coords) = 0
            \/ len(g.Coords.e[1]) = 0
            \/ len(g.Coords.e[1].e[1]) = 0
      [] OTHER -> FALSE

\* C21: BoundingBox() of a geometry whose shape is empty at some level on
\* the way to its first leaf is absent, and the call does not fault, whatever
\* the later elements hold.
C21_EmptyPathHasNoBox ==
    (box.of = "city" /\ EmptyOnPath(city.Geometry)) => box.r = NoBox

RECURSIVE Paths(_, _)
\* The index paths to the leaf coordinates of a shape of depth d.
Paths(d, shape) ==
    IF d = 1 THEN {<<>>}
    ELSE UNION {{<<i>> \o p : p \in Paths(d - 1, shape.e[i])} : i \in 1..len(shape)}

RECURSIVE LeafAt(_, _)
LeafAt(shape, p) == IF p = <<>> THEN shape ELSE LeafAt(shape.e[p[1]], Tail(p))

\* Document order of two paths of one length: outer index first.
Before(p, q) ==
    \E k \in 1..Len(p) : p[k] < q[k] /\ \A j \in 1..(k - 1) : p[j] = q[j]

\* C22: FMap calls the visitor once for every leaf Coord of the shape, in
\* document order (the n-th call is for the n-th leaf, outer index first),
\* leaves the shape as it was, and does not call it for an empty Curve,
\* Surface or Surfaces.
C22_FMapVisitsLeavesInOrder ==
    [][ (pc = "shape" /\ pc' = "visited") =>
          LET d == Depth(geo.variant)
              ps == Paths(d, geo.Coords)
          IN  /\ geo' = geo
              /\ Len(held') = Cardinality(ps)
              /\ \A p \in ps :
                     held'[1 + Cardinality({q \in ps : Before(q, p)})]
                        = LeafAt(geo.Coords, p)
              /\ (d > 1 /\ len(geo.Coords) = 0) => held' = <<>>
      ]_vars

\* The visitor was called for the one position of the second polygon after
\* the one position of the first.
C22_Witness ==
    /\ pc = "visited"
    /\ geo = Geo("*MultiPolygon",
                 Slice(<<Slice(<<Slice(<<Slice(<<0, MaxCoord>>)>>)>>),
                         Slice(<<Slice(<<>>),
                                 Slice(<<Slice(<<MaxCoord, 0>>)>>)>>)>>))
    /\ held = <<Slice(<<0, MaxCoord>>), Slice(<<MaxCoord, 0>>)>>

\* [min west, min south, max east, max north] of two boxes of four numbers.
Pointwise(a, b) ==
    Slice(<<Min({a.e[1], b.e[1]}), Min({a.e[2], b.e[2]}),
            Max({a.e[3], b.e[3]}), Max({a.e[4], b.e[4]})>>)

\* a is inside b, side by side.
Within(a, b) ==
    /\ b.e[1] <= a.e[1]
    /\ b.e[2] <= a.e[2]
    /\ b.e[3] >= a.e[3]
    /\ b.e[4] >= a.e[4]

\* C23: for two boxes a and b of four numbers, a.Join(b) leaves a as
\* [min west, min south, max east, max north] of the two and b as it was; a
\* only widens, a.Join(a) changes nothing, and b.Join(a) leaves in b the box
\* that a.Join(b) leaves in a.
C23_JoinIsPointwise ==
    [][ /\ (pc = "boxes" /\ pc' = "joined") =>
              /\ mem'[1] = Pointwise(mem[1], mem[2])
              /\ mem'[2] = mem[2]
              /\ Within(mem[1], mem'[1])
        /\ (pc = "boxes" /\ pc' = "joined-self") => mem' = mem
        /\ (pc = "boxes" /\ pc' = "joined-reverse") =>
              /\ mem'[2] = Pointwise(mem[1], mem[2])
              /\ mem'[1] = mem[1]
              /\ Within(mem[2], mem'[2])
      ]_vars

\* a.Join(b) was called and a now spans b, the box of the position (0,
\* MaxCoord), and the position (MaxCoord, 0).
C23_Witness ==
    /\ pc = "joined"
    /\ mem = <<Slice(<<0, 0, MaxCoord, MaxCoord>>), Slice(<<0, MaxCoord, 0, MaxCoord>>)>>

\* The keys of the object o in the order of its members.
Keys(o) == [i \in 1..Len(o.v) |-> o.v[i].key]

\* C24: an object that Feature.EncodeGeoJSON writes has its members in the
\* order type, bbox, id, geometry, properties, each at most once and no
\* other; type is "Feature", id is there exactly for a non-empty ID and is
\* that ID, geometry is always there, null exactly for the nil Geometry, and
\* a geometry object has type before coordinates.
C24_MemberOrder ==
    (pc \in {"feature-encoded-host", "feature-encoded-nil"} /\ err = NoError) =>
        /\ data.k = "obj"
        /\ Keys(data) = SelectSeq(<<"type", "bbox", "id", "geometry", "properties">>,
                                  LAMBDA key : Field(data, key) # Absent)
        /\ Field(data, "type") = JStr(TYPE_FEATURE)
        /\ Field(data, "id") = IF city.ID = "" THEN Absent ELSE JStr(city.ID)
        /\ Field(data, "geometry") # Absent
        /\ Field(data, "geometry") = JNull <=> city.Geometry = NoGeometry
        /\ Field(data, "geometry") # JNull =>
               Keys(Field(data, "geometry")) = <<"type", "coordinates">>

\* A LineString with an ID is written with all five members.
C24_Witness ==
    /\ pc = "feature-encoded-host"
    /\ err = NoError
    /\ city.ID # ""
    /\ city.Geometry.variant = "*LineString"
    /\ Keys(data) = <<"type", "bbox", "id", "geometry", "properties">>

\* C25: a collection without members has no box and is written without
\* `bbox`; and when Collection.DecodeGeoJSON returns no error for a document
\* whose `features` is absent or the empty array, the collection has no
\* members.
C25_NoMembers ==
    pc = "decoded-collection" =>
        /\ len(c.Features) = 0 =>
               /\ Collection_BoundingBox(c) = NoBox
               /\ Field(Collection_EncodeGeoJSON(c, c).bytes, "bbox") = Absent
        /\ (err = NoError /\ data.k = "obj"
                /\ Field(data, "features") \in {Absent, JArr(<<>>)})
               => len(c.Features) = 0

\* C26: when Feature.DecodeGeoJSON returns no error, the ID and the Geometry
\* of the host are those that the same document gives in a fresh host,
\* whatever the host held before, also for a document without `geometry` or
\* without `id`.
C26_DocumentDetermines ==
    (pc = "decoded-feature" /\ err = NoError) =>
        LET fresh == Feature_DecodeGeoJSON(ZeroCity, data)
        IN  /\ fresh.err = NoError
            /\ c.ID = fresh.x.ID
            /\ c.Geometry = fresh.x.Geometry

\* C27: BoundingBox() on the Feature and on the Collection of a document
\* that was decoded without error returns a box of four numbers or none, and
\* does not fault, also when positions of the document hold fewer than two
\* numbers.
C27_DecodedBoxNoFault ==
    pc \in {"boxed-feature", "boxed-collection"} =>
        /\ ~box.r.fault
        /\ len(box.r.box) \in {0, 4}

\* C28: json.Unmarshal of a JSON object into a *V, V one of the six
\* variants, ends with no error or with an error that it returns, never
\* with a fault, also for an object with the tag of V and no `coordinates`.
C28_VariantDecodeNoFault ==
    (pc = "decoded-variant" /\ data.k = "obj") => err # Panic

\* How a call ended: without error, with a returned error, or in a fault.
Outcome(e) ==
    CASE e = NoError -> "success"
      [] e = Panic -> "fault"
      [] OTHER -> "error"

\* C29: for every geometry document and every variant V, json.Unmarshal
\* into a *V returns no error exactly when decodeGeometry returns no error
\* and a geometry of variant V, and then the coordinates are equal; and a
\* document with an empty or absent `type`, or without `coordinates`, ends
\* the same way on both paths.
C29_DecodePathsAgree ==
    (pc = "decoded-variant" /\ data.k # "bad") =>
        LET r == decodeGeometry(data)
        IN  /\ err = NoError <=> (r.err = NoError /\ r.geo.variant = geo.variant)
            /\ err = NoError => geo.Coords = r.geo.Coords
            /\ ( /\ data.k = "obj"
                 /\ \/ UnmarshalString(Field(data, "type")) = [err |-> NoError, val |-> ""]
                    \/ Field(data, "coordinates") = Absent )
               => Outcome(err) = Outcome(r.err)

====
